---- MODULE Spec2Model ----
(***************************************************************************)
(* Model of pero_ocr/layout_engines/xy_cut.py (XYCutRegionSorter).         *)
(*                                                                         *)
(* A box is <<x0, y0, x1, y1>>, as in the rows of the numpy array `boxes`. *)
(* Identifiers are 0..N-1 (np.arange).  A histogram is a sequence h whose  *)
(* element h[p+1] is the value at pixel position p (numpy is 0-based).     *)
(* The recursion of recursive_xy_cut is unfolded into an explicit call     *)
(* stack; one action is one iteration of one of its loops.                 *)
(***************************************************************************)
EXTENDS Integers, Sequences, FiniteSets, TLC

\* ---------------------------------------------------------------- bounds
MaxBoxes == 3
MaxCoord == 3
MaxRegions == 2
NegCoord == 1
MaxIgnored == 1
MaxHistLen == 6
MaxHistVal == 2
MaxThreshold == 2

\* ------------------------------------------------- thresholds of the code
\* split_projection_profile(y_projection, 0, 1): min_value and min_gap
MinValue == 0
\* A faulty threshold: no gap at all is tolerated (used against C7)
MinGapMutantZero == 1 - 1
MinGap == 1

VARIABLES
    entry,       \* which entry point runs: "cut", "page" or "split"
    stableSort,  \* whether this build's argsort keeps ties in input order
    boxesIn,     \* boxes argument of the top-level recursive_xy_cut call
    res,         \* the output accumulator (list of identifiers)
    resNone,     \* process_page rebound res to None (except branch)
    stack,       \* call stack of recursive_xy_cut, innermost frame last
    pc,          \* "ready", "run", "returned", "raised"
    phase,       \* 1: first sort, 2: sort of the re-ordered boxes
    ppc,         \* process_page position: "none", "start", "cut", "after", "done"
    nIgnore,     \* number of regions excluded by category
    ret,         \* regions of the layout process_page returns
    hist,        \* split_projection_profile: arr_values
    minv,        \* split_projection_profile: min_value
    ming,        \* split_projection_profile: min_gap
    out          \* split_projection_profile: the value returned

vars == <<entry, stableSort, boxesIn, res, resNone, stack, pc, phase, ppc,
          nIgnore, ret, hist, minv, ming, out>>

\* ---------------------------------------------------------------- helpers
RECURSIVE SeqMax(_)
SeqMax(s) ==
    IF Len(s) = 1 THEN s[1]
    ELSE LET m == SeqMax(Tail(s)) IN IF s[1] >= m THEN s[1] ELSE m

Range(s) == {s[i] : i \in DOMAIN s}

IsPrefix(s, t) == Len(s) <= Len(t) /\ SubSeq(t, 1, Len(s)) = s

\* s[mask] of numpy with a boolean mask: the elements whose index is in keep
RECURSIVE MaskIdx(_, _, _)
MaskIdx(n, keep, i) ==
    IF i > n THEN <<>>
    ELSE (IF i \in keep THEN <<i>> ELSE <<>>) \o MaskIdx(n, keep, i + 1)

Take(s, idx) == [k \in 1..Len(idx) |-> s[idx[k]]]

\* ------------------------------------------------------------ np.argsort
\* argsort() uses numpy's default kind (quicksort), which is not stable:
\* every permutation that orders the keys is a possible outcome; a build
\* whose small-array path is insertion sort keeps ties in input order.
\* A faulty sort: equal keys come out against their input order (used
\* against C6)
ArgsortsMutantTiesReversed(keys, stable) ==
    {p \in [1..Len(keys) -> 1..Len(keys)] :
        /\ \A i, j \in 1..Len(keys) : i < j => p[i] # p[j]
        /\ \A i, j \in 1..Len(keys) : i < j => keys[p[i]] <= keys[p[j]]
        /\ stable => \A i, j \in 1..Len(keys) :
                        (i < j /\ keys[p[i]] = keys[p[j]]) => p[i] > p[j]}

Argsorts(keys, stable) ==
    {p \in [1..Len(keys) -> 1..Len(keys)] :
        /\ \A i, j \in 1..Len(keys) : i < j => p[i] # p[j]
        /\ \A i, j \in 1..Len(keys) : i < j => keys[p[i]] <= keys[p[j]]
        /\ stable => \A i, j \in 1..Len(keys) :
                        (i < j /\ keys[p[i]] = keys[p[j]]) => p[i] < p[j]}

\* boxes[:, c] for column c (0-based)
Column(boxes, c) == [i \in 1..Len(boxes) |-> boxes[i][c + 1]]

\* --------------------------------------------------- projection_by_bboxes
\* A slice bound of res[start:end] on an array of length len (Python rule)
SliceBound(i, len) ==
    IF i < 0 THEN (IF i + len < 0 THEN 0 ELSE i + len)
    ELSE IF i > len THEN len ELSE i

\* np.max(boxes[:, axis::2]) raises on an empty array and np.zeros(length)
\* raises on a negative length: ok = FALSE stands for the ValueError.
ProjectionByBboxes(boxes, axis) ==
    IF Len(boxes) = 0 THEN [ok |-> FALSE, hist |-> <<>>]
    ELSE
      LET length == SeqMax(Column(boxes, axis) \o Column(boxes, axis + 2))
      IN IF length < 0 THEN [ok |-> FALSE, hist |-> <<>>]
         ELSE [ok |-> TRUE,
               hist |-> [p \in 1..length |->
                  Cardinality({i \in 1..Len(boxes) :
                      /\ SliceBound(boxes[i][axis + 1], length) <= p - 1
                      /\ p - 1 < SliceBound(boxes[i][axis + 3], length)})]]

\* ----------------------------------------------- split_projection_profile
NoSplit == [some |-> FALSE, starts |-> <<>>, ends |-> <<>>]

\* A faulty split: line 122 (arr_end += 1) left out (used against C10)
SplitMutantNoPlusOne(arr_values, min_value, min_gap) ==
    LET n == Len(arr_values)
        arr_index == Take([i \in 1..n |-> i - 1],
                          MaskIdx(n, {i \in 1..n : arr_values[i] > min_value}, 1))
        m == Len(arr_index)
    IN IF m = 0 THEN NoSplit
       ELSE
         LET arr_diff == [i \in 1..(m - 1) |-> arr_index[i + 1] - arr_index[i]]
             arr_diff_index ==
                 MaskIdx(m - 1, {i \in 1..(m - 1) : arr_diff[i] > min_gap}, 1)
             arr_zero_intvl_start == Take(arr_index, arr_diff_index)
             arr_zero_intvl_end ==
                 [k \in 1..Len(arr_diff_index) |-> arr_index[arr_diff_index[k] + 1]]
             arr_start == <<arr_index[1]>> \o arr_zero_intvl_end
             arr_end0 == arr_zero_intvl_start \o <<arr_index[m]>>
         IN [some |-> TRUE, starts |-> arr_start, ends |-> arr_end0]

SplitProjectionProfile(arr_values, min_value, min_gap) ==
    LET n == Len(arr_values)
        \* np.where(arr_values > min_value)[0]
        arr_index == Take([i \in 1..n |-> i - 1],
                          MaskIdx(n, {i \in 1..n : arr_values[i] > min_value}, 1))
        m == Len(arr_index)
    IN IF m = 0 THEN NoSplit
       ELSE
         LET arr_diff == [i \in 1..(m - 1) |-> arr_index[i + 1] - arr_index[i]]
             \* np.where(arr_diff > min_gap)[0], here 1-based
             arr_diff_index ==
                 MaskIdx(m - 1, {i \in 1..(m - 1) : arr_diff[i] > min_gap}, 1)
             arr_zero_intvl_start == Take(arr_index, arr_diff_index)
             arr_zero_intvl_end ==
                 [k \in 1..Len(arr_diff_index) |-> arr_index[arr_diff_index[k] + 1]]
             arr_start == <<arr_index[1]>> \o arr_zero_intvl_end
             arr_end0 == arr_zero_intvl_start \o <<arr_index[m]>>
             arr_end == [k \in 1..Len(arr_end0) |-> arr_end0[k] + 1]
         IN [some |-> TRUE, starts |-> arr_start, ends |-> arr_end]

\* A faulty loop order: the runs are visited from the last to the first
\* (used against C9)
ZipMutantReversed(pos) ==
    [k \in 1..Len(pos.starts) |->
        <<pos.starts[Len(pos.starts) + 1 - k], pos.ends[Len(pos.starts) + 1 - k]>>]

\* zip(arr_0, arr_1)
Zip(pos) == [k \in 1..Len(pos.starts) |-> <<pos.starts[k], pos.ends[k]>>]

\* ------------------------------------------------------ recursive_xy_cut
\* One activation of recursive_xy_cut.  ysb, ysi: y_sorted_boxes and
\* y_sorted_indices; bands: zip(arr_y0, arr_y1); bi: the band the outer loop
\* is at; xsb, xsi: x_sorted_boxes_chunk and x_sorted_indices_chunk of that
\* band; cols: zip(arr_x0, arr_x1); ci: the column the inner loop is at
\* (0 when the inner loop is not running).
NoFrame ==
    [ysb |-> <<>>, ysi |-> <<>>, bands |-> <<>>, bi |-> 0,
     xsb |-> <<>>, xsi |-> <<>>, cols |-> <<>>, ci |-> 0]

\* Lines 136-147: the assertion, the sort by y0, the projection onto the
\* y axis and its split.  p is the permutation argsort returned.
Enter(boxes, indices, p) ==
    IF Len(boxes) # Len(indices) THEN [kind |-> "raise", frame |-> NoFrame]
    ELSE
      LET y_sorted_boxes == Take(boxes, p)
          y_sorted_indices == Take(indices, p)
          y_projection == ProjectionByBboxes(y_sorted_boxes, 1)
      IN IF ~y_projection.ok THEN [kind |-> "raise", frame |-> NoFrame]
         ELSE
           LET pos_y == SplitProjectionProfile(y_projection.hist, MinValue, MinGap)
           IN IF ~pos_y.some THEN [kind |-> "none", frame |-> NoFrame]
              ELSE [kind |-> "frame",
                    frame |-> [NoFrame EXCEPT !.ysb = y_sorted_boxes,
                                              !.ysi = y_sorted_indices,
                                              !.bands = Zip(pos_y),
                                              !.bi = 1]]

\* A faulty mask: r0 < instead of r0 <= (used against C1)
InRunMutantStrict(boxes, c, run) ==
    MaskIdx(Len(boxes),
            {i \in 1..Len(boxes) : run[1] < boxes[i][c + 1] /\ boxes[i][c + 1] < run[2]},
            1)

\* A faulty mask: a column keeps the whole chunk (used against C8)
InRunMutantWholeChunk(boxes, c, run) ==
    MaskIdx(Len(boxes),
            {i \in 1..Len(boxes) :
                c = 0 \/ (run[1] <= boxes[i][c + 1] /\ boxes[i][c + 1] < run[2])},
            1)

\* Lines 151 and 176-178: r0 <= boxes[:, c] < r1 as the kept positions
InRun(boxes, c, run) ==
    MaskIdx(Len(boxes),
            {i \in 1..Len(boxes) : run[1] <= boxes[i][c + 1] /\ boxes[i][c + 1] < run[2]},
            1)

\* A variant of line 171 that extends res with the chunk sorted by x0 (used
\* against C3)
LeafOutputMutantXSorted(y_sorted_indices_chunk, x_sorted_indices_chunk) ==
    x_sorted_indices_chunk

\* Line 171: what res.extend receives when the band has a single column
LeafOutput(y_sorted_indices_chunk, x_sorted_indices_chunk) ==
    y_sorted_indices_chunk

\* A faulty except branch: res is left as it is (used against C4)
RaiseMutantKeepsRes ==
    /\ stack' = <<>>
    /\ pc' = "raised"
    /\ ppc' = (IF entry = "page" THEN "after" ELSE ppc)
    /\ UNCHANGED <<res, resNone>>

\* An exception leaves every activation; process_page catches it and sets
\* res = None (lines 43-45), a direct caller keeps what was appended.
Raise ==
    /\ stack' = <<>>
    /\ pc' = "raised"
    /\ IF entry = "page"
       THEN res' = <<>> /\ resNone' = TRUE /\ ppc' = "after"
       ELSE UNCHANGED <<res, resNone, ppc>>

\* The outermost activation returns normally.
Finished ==
    /\ stack' = <<>>
    /\ pc' = "returned"
    /\ ppc' = (IF entry = "page" THEN "after" ELSE ppc)
    /\ UNCHANGED <<res, resNone>>

\* The call recursive_xy_cut(boxes, indices, res) made by the caller
Invoke(boxes) ==
    \E p \in Argsorts(Column(boxes, 1), stableSort) :
       LET e == Enter(boxes, [i \in 1..Len(boxes) |-> i - 1], p)
       IN CASE e.kind = "raise" -> Raise
            [] e.kind = "none" -> Finished
            [] OTHER -> /\ stack' = <<e.frame>>
                        /\ pc' = "run"
                        /\ ppc' = (IF entry = "page" THEN "cut" ELSE ppc)
                        /\ UNCHANGED <<res, resNone>>

Top == stack[Len(stack)]
SetTop(f) == [stack EXCEPT ![Len(stack)] = f]

\* The loops move on after one column: the next column, or the next band.
AdvanceCol(f) ==
    IF f.ci < Len(f.cols) THEN [f EXCEPT !.ci = f.ci + 1]
    ELSE [f EXCEPT !.ci = 0, !.cols = <<>>, !.xsb = <<>>, !.xsi = <<>>,
                   !.bi = f.bi + 1]

\* The band of a frame's outer loop at index b: its chunk (line 151-154)
ChunkIdx(f, b) == InRun(f.ysb, 1, f.bands[b])

\* A direct call of the static method recursive_xy_cut with an empty res
Call ==
    /\ entry = "cut" /\ pc = "ready"
    /\ Invoke(boxesIn)
    /\ UNCHANGED <<entry, stableSort, boxesIn, phase, nIgnore, ret,
                   hist, minv, ming, out>>

\* Lines 148-172: one iteration of the loop over the bands, up to the
\* continue or to the start of the loop over the columns.
CutBand ==
    /\ pc = "run" /\ Top.ci = 0 /\ Top.bi <= Len(Top.bands)
    /\ LET idx == ChunkIdx(Top, Top.bi)
           y_sorted_boxes_chunk == Take(Top.ysb, idx)
           y_sorted_indices_chunk == Take(Top.ysi, idx)
       IN \E p \in Argsorts(Column(y_sorted_boxes_chunk, 0), stableSort) :
            LET x_sorted_boxes_chunk == Take(y_sorted_boxes_chunk, p)
                x_sorted_indices_chunk == Take(y_sorted_indices_chunk, p)
                x_projection == ProjectionByBboxes(x_sorted_boxes_chunk, 0)
            IN IF ~x_projection.ok THEN Raise
               ELSE
                 LET pos_x == SplitProjectionProfile(x_projection.hist, MinValue, MinGap)
                 IN IF ~pos_x.some
                    THEN /\ stack' = SetTop([Top EXCEPT !.bi = Top.bi + 1])
                         /\ UNCHANGED <<res, resNone, pc, ppc>>
                    ELSE IF Len(pos_x.starts) = 1
                    THEN /\ res' = res \o LeafOutput(y_sorted_indices_chunk,
                                                     x_sorted_indices_chunk)
                         /\ stack' = SetTop([Top EXCEPT !.bi = Top.bi + 1])
                         /\ UNCHANGED <<resNone, pc, ppc>>
                    ELSE /\ stack' = SetTop([Top EXCEPT !.xsb = x_sorted_boxes_chunk,
                                                        !.xsi = x_sorted_indices_chunk,
                                                        !.cols = Zip(pos_x),
                                                        !.ci = 1])
                         /\ UNCHANGED <<res, resNone, pc, ppc>>
    /\ UNCHANGED <<entry, stableSort, boxesIn, phase, nIgnore, ret,
                   hist, minv, ming, out>>

\* Lines 175-181: one iteration of the loop over the columns: the mask and
\* the recursive call, up to the start of the callee's loop over its bands.
CutColumn ==
    /\ pc = "run" /\ Top.ci >= 1
    /\ LET idx == InRun(Top.xsb, 0, Top.cols[Top.ci])
           boxes == Take(Top.xsb, idx)
           indices == Take(Top.xsi, idx)
       IN \E p \in Argsorts(Column(boxes, 1), stableSort) :
            LET e == Enter(boxes, indices, p)
            IN CASE e.kind = "raise" -> Raise
                 [] e.kind = "none" ->
                        /\ stack' = SetTop(AdvanceCol(Top))
                        /\ UNCHANGED <<res, resNone, pc, ppc>>
                 [] OTHER ->
                        /\ stack' = Append(stack, e.frame)
                        /\ UNCHANGED <<res, resNone, pc, ppc>>
    /\ UNCHANGED <<entry, stableSort, boxesIn, phase, nIgnore, ret,
                   hist, minv, ming, out>>

\* The loop over the bands is exhausted: the activation returns to the loop
\* over the columns of its caller, or to the caller of the outermost call.
CutReturn ==
    /\ pc = "run" /\ Top.ci = 0 /\ Top.bi > Len(Top.bands)
    /\ IF Len(stack) = 1 THEN Finished
       ELSE /\ stack' = [SubSeq(stack, 1, Len(stack) - 1)
                            EXCEPT ![Len(stack) - 1] = AdvanceCol(stack[Len(stack) - 1])]
            /\ UNCHANGED <<res, resNone, pc, ppc>>
    /\ UNCHANGED <<entry, stableSort, boxesIn, phase, nIgnore, ret,
                   hist, minv, ming, out>>

\* The caller of the idempotence property: the boxes are put in the order
\* just produced and sorted again with identifiers 0..N-1.
Resort ==
    /\ entry = "cut" /\ pc = "returned" /\ phase = 1 /\ stableSort
    /\ Len(res) = Len(boxesIn)
    /\ boxesIn' = [k \in 1..Len(res) |-> boxesIn[res[k] + 1]]
    /\ res' = <<>>
    /\ phase' = 2
    /\ pc' = "ready"
    /\ UNCHANGED <<entry, stableSort, resNone, stack, ppc, nIgnore, ret,
                   hist, minv, ming, out>>

\* ------------------------------------------------------------- the inputs
Interval(lo, hi) == {<<a, b>> \in (lo..hi) \X (lo..hi) : a < b}
ValidBoxes ==
    {<<ix[1], iy[1], ix[2], iy[2]>> : ix \in Interval(0, MaxCoord),
                                     iy \in Interval(0, MaxCoord)}
Valid(b) == 0 <= b[1] /\ b[1] < b[3] /\ 0 <= b[2] /\ b[2] < b[4]

\* argsort is taken at its contract here: any order of the ties
InitCut ==
    /\ entry = "cut"
    /\ stableSort = FALSE
    /\ \E n \in 1..MaxBoxes : boxesIn \in [1..n -> ValidBoxes]
    /\ res = <<>> /\ resNone = FALSE /\ stack = <<>> /\ pc = "ready" /\ phase = 1
    /\ ppc = "none" /\ nIgnore = 0 /\ ret = <<>>
    /\ hist = <<>> /\ minv = 0 /\ ming = 0 /\ out = NoSplit

Next == Call \/ CutBand \/ CutColumn \/ CutReturn

Spec == InitCut /\ [][Next]_vars

\* A build whose argsort keeps ties in input order, and a caller that sorts
\* a second time what the first sort produced
InitStable ==
    /\ entry = "cut"
    /\ stableSort = TRUE
    /\ \E n \in 1..MaxBoxes : boxesIn \in [1..n -> ValidBoxes]
    /\ res = <<>> /\ resNone = FALSE /\ stack = <<>> /\ pc = "ready" /\ phase = 1
    /\ ppc = "none" /\ nIgnore = 0 /\ ret = <<>>
    /\ hist = <<>> /\ minv = 0 /\ ming = 0 /\ out = NoSplit

NextStable == Call \/ CutBand \/ CutColumn \/ CutReturn \/ Resort

SpecStable == InitStable /\ [][NextStable]_vars

\* ----------------------------------------------------------- process_page
\* The page is modelled after the geometry the sorter reads: boxesIn[i+1] is
\* the extent of the polygon of page_layout.regions[i] (integer pixel
\* coordinates, on which floor and ceil change nothing), and nIgnore regions
\* are of a category outside CATEGORIES.  A region to sort is named by its
\* position 0..N-1 in page_layout.regions, an excluded one by -1, -2, ...
IgnoredRegions == [k \in 1..nIgnore |-> 0 - k]
OriginalRegions == [i \in 1..Len(boxesIn) |-> i - 1]

\* helpers.merge_page_layouts(page_layout_ignore, page_layout)
MergePageLayouts(ignored, sorted) == ignored \o sorted

\* Lines 19-45: the split by categories, the early return for fewer than two
\* regions, the boxes and the call of recursive_xy_cut inside the try.
PageStart ==
    /\ entry = "page" /\ ppc = "start"
    /\ IF Len(boxesIn) < 2
       THEN /\ ret' = MergePageLayouts(IgnoredRegions, OriginalRegions)
            /\ ppc' = "done"
            /\ UNCHANGED <<res, resNone, stack, pc>>
       ELSE /\ Invoke(boxesIn)
            /\ UNCHANGED ret
    /\ UNCHANGED <<entry, stableSort, boxesIn, phase, nIgnore,
                   hist, minv, ming, out>>

\* Lines 47-57: the fallback when res is None or empty, else the reordering.
PageFinish ==
    /\ entry = "page" /\ ppc = "after"
    /\ IF resNone \/ res = <<>>
       THEN ret' = MergePageLayouts(IgnoredRegions, OriginalRegions)
       ELSE ret' = MergePageLayouts(IgnoredRegions,
                                    [k \in 1..Len(res) |-> OriginalRegions[res[k] + 1]])
    /\ ppc' = "done"
    /\ UNCHANGED <<entry, stableSort, boxesIn, res, resNone, stack, pc, phase,
                   nIgnore, hist, minv, ming, out>>

Extent(lo, hi) == {<<a, b>> \in (lo..hi) \X (lo..hi) : a <= b}
PageBoxes ==
    {<<ix[1], iy[1], ix[2], iy[2]>> : ix \in Extent(0 - NegCoord, MaxCoord),
                                     iy \in Extent(0 - NegCoord, MaxCoord)}

InitPage ==
    /\ entry = "page"
    /\ stableSort = FALSE
    /\ \E n \in 0..MaxRegions : boxesIn \in [1..n -> PageBoxes]
    /\ nIgnore \in 0..MaxIgnored
    /\ res = <<>> /\ resNone = FALSE /\ stack = <<>> /\ pc = "ready" /\ phase = 1
    /\ ppc = "start" /\ ret = <<>>
    /\ hist = <<>> /\ minv = 0 /\ ming = 0 /\ out = NoSplit

NextPage == PageStart \/ CutBand \/ CutColumn \/ CutReturn \/ PageFinish

SpecPage == InitPage /\ [][NextPage]_vars

\* ------------------------------------- split_projection_profile on its own
SplitCall ==
    /\ entry = "split" /\ pc = "ready"
    /\ out' = SplitProjectionProfile(hist, minv, ming)
    /\ pc' = "returned"
    /\ UNCHANGED <<entry, stableSort, boxesIn, res, resNone, stack, phase, ppc,
                   nIgnore, ret, hist, minv, ming>>

InitSplit ==
    /\ entry = "split"
    /\ \E n \in 0..MaxHistLen : hist \in [1..n -> 0..MaxHistVal]
    /\ minv \in 0..MaxThreshold
    /\ ming \in 0..MaxThreshold
    /\ out = NoSplit
    /\ stableSort = FALSE /\ boxesIn = <<>>
    /\ res = <<>> /\ resNone = FALSE /\ stack = <<>> /\ pc = "ready" /\ phase = 1
    /\ ppc = "none" /\ nIgnore = 0 /\ ret = <<>>

NextSplit == SplitCall

SpecSplit == InitSplit /\ [][NextSplit]_vars

\* ================================================================ claims
Identity == [i \in 1..Len(boxesIn) |-> i - 1]
AllValid == \A i \in 1..Len(boxesIn) : Valid(boxesIn[i])
X0(id) == boxesIn[id + 1][1]
Y0(id) == boxesIn[id + 1][2]
Pos(id) == CHOOSE k \in 1..Len(res) : res[k] = id
Appended == SubSeq(res', Len(res) + 1, Len(res'))

\* The runs of the projection of a set of valid boxes onto the x axis
XRuns(boxes) ==
    Zip(SplitProjectionProfile(ProjectionByBboxes(boxes, 0).hist, MinValue, MinGap))
\* The index of the run that holds coordinate v (0 when none does)
RunOf(runs, v) ==
    IF \E k \in 1..Len(runs) : runs[k][1] <= v /\ v < runs[k][2]
    THEN CHOOSE k \in 1..Len(runs) : runs[k][1] <= v /\ v < runs[k][2]
    ELSE 0
BandOf(f, i) == RunOf(f.bands, f.ysb[i][2])
BandChunk(f, b) == Take(f.ysb, ChunkIdx(f, b))

\* C1: a call of recursive_xy_cut on valid boxes that has returned leaves in
\* res a permutation of the identifiers: same length, each exactly once.
C1_Permutation ==
    (entry = "cut" /\ AllValid /\ pc = "returned") =>
        /\ Len(res) = Len(boxesIn)
        /\ Range(res) = 0..(Len(boxesIn) - 1)

C1_Witness ==
    /\ entry = "cut" /\ pc = "returned" /\ phase = 1
    /\ Len(boxesIn) >= 3 /\ AllValid
    /\ Len(res) = Len(boxesIn) /\ res # Identity

\* C3 (amended): a band of two or more boxes that has a single column is
\* appended in ascending order of the vertical start y0 of its boxes (the
\* order of the sort by y0), and holds exactly the identifiers of the band.
C3_LeafStep ==
    /\ pc = "run" /\ Top.ci = 0 /\ Top.bi <= Len(Top.bands)
    /\ Len(res') > Len(res)
    /\ Len(ChunkIdx(Top, Top.bi)) >= 2
C3_LeafInYOrder ==
    [][C3_LeafStep =>
         /\ Range(Appended) = Range(Take(Top.ysi, ChunkIdx(Top, Top.bi)))
         /\ Len(Appended) = Len(ChunkIdx(Top, Top.bi))
         /\ \A i, j \in 1..Len(Appended) :
               i < j => Y0(Appended[i]) <= Y0(Appended[j])]_vars

\* C3 as claimed: that band is appended in ascending order of x0.
C3_LeafInXOrder ==
    [][C3_LeafStep =>
         \A i, j \in 1..Len(Appended) :
               i < j => X0(Appended[i]) <= X0(Appended[j])]_vars

\* The first band of the outermost call had one column and two or more
\* boxes, and the order it was appended in is not the order of x0.
C3_Witness ==
    /\ entry = "cut" /\ pc = "run" /\ Len(stack) = 1
    /\ Top.bi = 2 /\ Top.ci = 0
    /\ Len(BandChunk(Top, 1)) >= 2
    /\ Len(XRuns(BandChunk(Top, 1))) = 1
    /\ Len(res) >= 2
    /\ X0(res[1]) > X0(res[2]) /\ Y0(res[1]) < Y0(res[2])

\* C6: with ties of the sorting keys kept in input order, sorting the boxes
\* again in the order just produced gives the identity order 0..N-1.
C6_Idempotent ==
    (entry = "cut" /\ stableSort /\ AllValid /\ phase = 2 /\ pc = "returned") =>
        res = Identity

\* The second sort has returned for boxes whose produced order is not the
\* order of y0 and among which two share y0.
C6_Witness ==
    /\ entry = "cut" /\ stableSort /\ phase = 2 /\ pc = "returned"
    /\ Len(boxesIn) >= 3
    /\ \E i, j \in 1..Len(boxesIn) : i < j /\ boxesIn[i][2] > boxesIn[j][2]
    /\ \E i, j \in 1..Len(boxesIn) : i < j /\ boxesIn[i][2] = boxesIn[j][2]

\* C7: in every activation, two valid boxes whose vertical extents overlap
\* or touch have their y0 in one and the same band.
C7_TouchingSameBand ==
    \A k \in 1..Len(stack) :
        LET f == stack[k] IN
        \A i, j \in 1..Len(f.ysb) :
            ( /\ Valid(f.ysb[i]) /\ Valid(f.ysb[j])
              /\ f.ysb[i][2] <= f.ysb[j][4]
              /\ f.ysb[j][2] <= f.ysb[i][4] )
            => (BandOf(f, i) # 0 /\ BandOf(f, i) = BandOf(f, j))

\* An activation of three boxes two of which only touch
C7_Witness ==
    /\ entry = "cut" /\ pc = "run" /\ Len(stack) >= 1
    /\ Len(Top.ysb) >= 3
    /\ \E i, j \in 1..Len(Top.ysb) :
          /\ Top.ysb[i][4] = Top.ysb[j][2]
          /\ BandOf(Top, i) # 0
          /\ BandOf(Top, i) = BandOf(Top, j)

\* C8: every activation below the outermost one was entered from a band
\* with two or more columns, holds at least one box and fewer boxes than its
\* caller; every column of a band being split selects at least one box; and
\* the call comes to its end: it never raises, it can always take a step
\* until it has returned, and every step raises a bounded measure of
\* progress, so that no run of a call is infinite.
C8_Descent ==
    /\ \A k \in 2..Len(stack) :
          /\ stack[k - 1].ci >= 1
          /\ Len(stack[k - 1].cols) >= 2
          /\ Len(stack[k].ysb) >= 1
          /\ Len(stack[k].ysb) < Len(stack[k - 1].ysb)
    /\ \A k \in 1..Len(stack) :
          stack[k].ci >= 1 =>
             /\ Len(stack[k].cols) >= 2
             /\ \A c \in 1..Len(stack[k].cols) :
                   Len(InRun(stack[k].xsb, 0, stack[k].cols[c])) >= 1
\* The progress of a call as one number: the loop positions of the
\* activations, the outermost one most significant.  A call on N boxes is at
\* most N activations deep and no loop position reaches Radix.
Radix == (Len(boxesIn) + 2) * (Len(boxesIn) + 2)
RECURSIVE Pow(_, _)
Pow(b, e) == IF e <= 0 THEN 1 ELSE b * Pow(b, e - 1)
LoopPosition(f) == f.bi * (Len(boxesIn) + 1) + f.ci
RECURSIVE StackProgress(_, _)
StackProgress(st, k) ==
    IF k > Len(st) THEN 0
    ELSE LoopPosition(st[k]) * Pow(Radix, Len(boxesIn) - k) + StackProgress(st, k + 1)
Progress(p, st) ==
    IF p = "ready" THEN 0
    ELSE IF p = "run" THEN StackProgress(st, 1)
    ELSE Pow(Radix, Len(boxesIn))
C8_Terminates ==
    [][(entry = "cut" /\ AllValid /\ phase' = phase) =>
          /\ C8_Descent'
          /\ pc' # "raised"
          /\ Progress(pc', stack') > Progress(pc, stack)
          /\ Progress(pc', stack') <= Pow(Radix, Len(boxesIn))]_vars

\* An activation entered from a column that holds two of the three boxes
C8_Witness ==
    /\ entry = "cut" /\ pc = "run" /\ Len(stack) = 2
    /\ Len(stack[2].ysb) = 2 /\ Len(stack[1].ysb) = 3

\* C9: res only grows at its end; in every activation a box of an upper
\* band comes before a box of a lower band, and in a band with two or more
\* columns a box of a column further left comes before one further right.
\* The order is stated of the state a step starts in: every state with an
\* activation has a step (CutBand, CutColumn or CutReturn is enabled).
C9_OrderIn(f) ==
    \A band \in {[i \in 1..Len(f.ysb) |-> BandOf(f, i)]} :
    \A runs \in {[b \in 1..Len(f.bands) |-> XRuns(BandChunk(f, b))]} :
    \A col \in {[i \in 1..Len(f.ysb) |-> RunOf(runs[band[i]], f.ysb[i][1])]} :
    \A i, j \in 1..Len(f.ysb) :
       ( /\ f.ysi[j] \in Range(res)
         /\ \/ band[i] # band[j] /\ f.ysb[i][2] < f.ysb[j][2]
            \/ /\ band[i] = band[j]
               /\ Len(runs[band[i]]) >= 2
               /\ col[i] # col[j]
               /\ f.ysb[i][1] < f.ysb[j][1] )
       => /\ f.ysi[i] \in Range(res)
          /\ Pos(f.ysi[i]) < Pos(f.ysi[j])
C9_Order == \A k \in 1..Len(stack) : C9_OrderIn(stack[k])
C9_PreOrder ==
    [][(entry = "cut" /\ AllValid) =>
          /\ C9_Order
          /\ phase' = phase => IsPrefix(res, res')]_vars

\* The outermost call has appended a first band of two columns and its
\* second band, and has not returned yet.
C9_Witness ==
    /\ entry = "cut" /\ pc = "run" /\ Len(stack) = 1
    /\ Len(Top.bands) = 2 /\ Top.bi = 3
    /\ Len(XRuns(BandChunk(Top, 1))) >= 2
    /\ Len(res) = 3

\* ------------------------------------------------------------ process_page
NonPositive(b) == b[1] >= b[3] \/ b[2] >= b[4]
AllRegionsOnce ==
    /\ Len(ret) = nIgnore + Len(boxesIn)
    /\ Range(ret) = Range(IgnoredRegions) \cup Range(OriginalRegions)

\* C2 as claimed: when the recursion returns fewer identifiers than there
\* are regions to sort, process_page returns the regions in their original
\* order, every region exactly once.
C2_ShortResultFallsBack ==
    (entry = "page" /\ ppc = "done" /\ pc = "returned" /\ Len(res) < Len(boxesIn)) =>
        /\ ret = MergePageLayouts(IgnoredRegions, OriginalRegions)
        /\ AllRegionsOnce

\* C4: when recursive_xy_cut raises, what it had appended is dropped (res
\* is None), process_page goes on to return, and the layout it returns is
\* the excluded regions merged with the regions in their original order.
C4_RaiseFallsBack ==
    (entry = "page" /\ pc = "raised") =>
        /\ resNone /\ res = <<>>
        /\ ppc \in {"after", "done"}
        /\ ppc = "after" => ENABLED PageFinish
        /\ ppc = "done" =>
              /\ ret = MergePageLayouts(IgnoredRegions, OriginalRegions)
              /\ AllRegionsOnce

\* process_page has returned after a raise that came once the first region,
\* a valid box alone in the band above the second region, had been appended,
\* on a page with an excluded region.
C4_Witness ==
    /\ entry = "page" /\ pc = "raised" /\ ppc = "done"
    /\ nIgnore >= 1 /\ Len(boxesIn) = 2
    /\ Valid(boxesIn[1])
    /\ boxesIn[1][4] < boxesIn[2][2]
    /\ ret = <<0 - 1, 0, 1>>

\* C5 as claimed: a call whose input holds a box of non-positive extent is
\* rejected; in particular it does not return normally with fewer
\* identifiers than it was given.
C5_MalformedRejected ==
    (entry = "page" /\ pc = "returned"
       /\ \E i \in 1..Len(boxesIn) : NonPositive(boxesIn[i]))
    => Len(res) = Len(boxesIn)

\* -------------------------------------------------- split_projection_profile
Active == {q \in 0..(Len(hist) - 1) : hist[q + 1] > minv}
RunsOf(q) == {k \in 1..Len(out.starts) : out.starts[k] <= q /\ q < out.ends[k]}
Consecutive(q, r) == q \in Active /\ r \in Active /\ q < r
                     /\ \A t \in Active : ~(q < t /\ t < r)

\* C10: no split exactly when no position is active; otherwise starts and
\* ends are equally long, starts[i] < ends[i] <= starts[i+1], every active
\* position is in exactly one run, a run starts at its first and ends one
\* past its last active position, and two consecutive active positions are
\* in different runs exactly when they are more than min_gap apart.
C10_SplitRuns ==
    (entry = "split" /\ pc = "returned") =>
        /\ out.some = (Active # {})
        /\ ~out.some => (out.starts = <<>> /\ out.ends = <<>>)
        /\ out.some =>
             /\ Len(out.starts) = Len(out.ends) /\ Len(out.starts) >= 1
             /\ \A k \in 1..Len(out.starts) : out.starts[k] < out.ends[k]
             /\ \A k \in 1..(Len(out.starts) - 1) : out.ends[k] <= out.starts[k + 1]
             /\ \A q \in Active : Cardinality(RunsOf(q)) = 1
             /\ \A k \in 1..Len(out.starts) :
                   /\ out.starts[k] \in Active
                   /\ (out.ends[k] - 1) \in Active
                   /\ \A q \in Active :
                         k \in RunsOf(q) => (out.starts[k] <= q /\ q <= out.ends[k] - 1)
             /\ \A q, r \in Active :
                   Consecutive(q, r) => ((RunsOf(q) # RunsOf(r)) <=> (r - q > ming))

\* A split into two runs, one of which spans an inactive position
C10_Witness ==
    /\ entry = "split" /\ pc = "returned" /\ out.some
    /\ Len(out.starts) = 2
    /\ \E k \in 1..2 : \E q \in out.starts[k]..(out.ends[k] - 1) : q \notin Active

====
